---- MODULE Spec2Model ----
(***************************************************************************)
(* A model of shortwave's transport layer.                                 *)
(*                                                                         *)
(*   SpecXcvr   BaseTransceiver (shortwave/transmission/base.py): the      *)
(*              three guarded shutdown operations stop_tx, stop_rx and     *)
(*              close, run by several threads, one statement per step.     *)
(*   SpecProto  Protocol.on_receive (shortwave/transmission.py): the       *)
(*              framing loop over the accumulation buffer.                 *)
(*   SpecRecv   EventPollReceiver.run (shortwave/transmission.py): the     *)
(*              edge-triggered drain loop over the attached sockets, with  *)
(*              the peers and Dialogue.close beside it.                    *)
(*                                                                         *)
(* base.py imports synchronized from shortwave.concurrency.  Its guard is  *)
(* modelled from the design text: one guard per operation, mutually        *)
(* exclusive (a caller waits while the operation is executing), and        *)
(* locked() answers whether the operation is currently executing ("a full  *)
(* close is not already underway").                                        *)
(***************************************************************************)
EXTENDS Integers, Sequences, FiniteSets, TLC

\* ------------------------------------------------------------------ bounds
\* Number of application threads using one transceiver.
NumThreads == 2
\* Number of top-level calls the threads make in all.
MaxCalls == 3

Threads == 1..NumThreads
NoThread == 0
Ops == {"stop_tx", "stop_rx", "close"}

VARIABLES
    \* BaseTransceiver fields (TRUE: the reference is set, FALSE: None)
    transmitter, receiver, socket,
    \* BaseReceiver.clients holds the entry of this transceiver's descriptor
    attached,
    \* what on_stop() does: "pass" (BaseTransceiver's own), or a subclass's
    \* hook calling "close" or "stop_tx" on the transceiver
    hook,
    \* effects on the socket object and hooks
    nSockClose,      \* number of socket.close() calls
    nCloseBody,      \* number of times close() entered its releasing body
    nOnStop,         \* number of on_stop() invocations
    logged,          \* halves whose shutdown error was logged with log.error
    shut,            \* halves for which socket.shutdown() was called
    \* the guards of the synchronized operations: the thread executing each
    lock,
    \* per thread: the call stack, whether a call raised; the calls made in all
    stack, raised, ncalls,
    \* history: the operations called at top level; whether the running
    \* top-level call of a thread began after the socket was released, or
    \* after a top-level close() had returned; two threads were in calls at once
    started, late, afterClose, closeReturned, overlap

VARIABLES
    \* Protocol: the accumulation buffer and the limiter
    buffer, limit,
    \* the frames handed to on_data, in order
    frames,
    \* all bytes handed to on_receive so far, and the view of the last call
    stream, lastView,
    \* "ok"; "error": on_receive raised TypeError; "hung": on_receive is in a
    \* loop that never ends
    pstatus

pvars == <<buffer, limit, frames, stream, lastView, pstatus>>

VARIABLES
    \* Transmitter: the finished flag
    finished,
    \* number of socket.shutdown(SHUT_WR) calls it issued, whether one of them
    \* raised a socket.error (logged), number of finish() calls made
    nShutdownWr, txLogged, nFinishCalls

tvars == <<finished, nShutdownWr, txLogged, nFinishCalls>>

VARIABLES
    \* EventPollReceiver: the descriptors in self.clients and those registered
    \* with self.poll
    clients, registered,
    \* the worker thread running run(): its position, the events of the
    \* current poll batch still to handle, the event being handled, and the
    \* locals received and receiving
    wpc, events, cur, received, receiving,
    \* each client's buffer, the bytearray that every recv_into writes into
    rbuf,
    \* the last read of the wakeup being handled raised errno 11 (would block)
    again,
    \* the last read of the worker raised errno 4 (interrupted by a signal)
    interrupted,
    \* each socket: bytes queued in the kernel, number of bytes the peer has
    \* sent, whether the peer has half-closed or reset, whether a readiness
    \* event is pending, whether the read half is shut down locally, whether
    \* the socket is still open
    inq, sent, peerClosed, reset, edge, rdShut, sockOpen,
    \* each Dialogue: the position of the application thread in close()
    apc,
    \* history: bytes given to on_receive, number of on_finish calls, whether
    \* a read returned zero bytes, whether a read was issued after that
    delivered, nFinish, zeroRead, readAfterZero

rvars == <<clients, registered, wpc, events, cur, received, receiving, rbuf, again,
           interrupted,
           inq, sent, peerClosed, reset, edge, rdShut, sockOpen, apc,
           delivered, nFinish, zeroRead, readAfterZero>>

xvars == <<transmitter, receiver, socket, attached, hook, nSockClose, nCloseBody,
           nOnStop, logged, shut, lock, stack, ncalls, raised, started, late,
           afterClose, closeReturned, overlap>>

vars == <<xvars, pvars, tvars, rvars>>

\* what the transceiver operations leave alone
XOthers == <<pvars, tvars, rvars, attached, hook>>

\* ------------------------------------------------------------ call stacks
Frame(op) == [op |-> op, pc |-> "enter", exc |-> FALSE]

Depth(t) == Len(stack[t])
Top(t) == stack[t][Depth(t)]
At(t, op, pc) == Depth(t) > 0 /\ Top(t).op = op /\ Top(t).pc = pc

\* the stack of t with its top frame moved to pc
Goto(t, pc) == [stack EXCEPT ![t][Depth(t)].pc = pc]
\* the stack of t with its top frame moved to pc and a call of op pushed
CallFrom(t, pc, op) ==
    [stack EXCEPT ![t] = Append([@ EXCEPT ![Depth(t)].pc = pc], Frame(op))]

XcvrFields == <<transmitter, receiver, socket>>
Effects == <<nSockClose, nCloseBody, nOnStop, logged, shut>>
History == <<ncalls, started, late, afterClose, closeReturned>>

InCall(t) == Depth(t) > 0
Busy == {t \in Threads : InCall(t)}

\* ------------------------------------------------------------ synchronized
\* locked(): the guarded operation is currently executing.
locked(op) == lock[op] # NoThread

\* Entering a synchronized operation: wait until it is not executing.
Acquire(t) ==
    /\ Depth(t) > 0
    /\ Top(t).pc = "enter"
    /\ ~locked(Top(t).op)
    /\ lock' = [lock EXCEPT ![Top(t).op] = t]
    /\ stack' = Goto(t, "test")
    /\ UNCHANGED <<XOthers, XcvrFields, Effects, History, raised, overlap>>

\* An exception arriving in the caller's frame: it leaves the caller at once,
\* except in stop_rx when it comes out of on_stop(), where `finally:` runs the
\* rest of the body with the exception pending.
Unwind(rest) ==
    IF rest[Len(rest)].op = "stop_rx" /\ rest[Len(rest)].pc = "shutdown"
    THEN [rest EXCEPT ![Len(rest)].exc = TRUE]
    ELSE [rest EXCEPT ![Len(rest)].exc = TRUE, ![Len(rest)].pc = "ret"]

\* Leaving a synchronized operation: the guard is freed and the frame popped;
\* an exception in flight passes to the caller, which unwinds in turn.
Return(t) ==
    /\ Depth(t) > 0
    /\ Top(t).pc = "ret"
    /\ lock' = [lock EXCEPT ![Top(t).op] = NoThread]
    /\ LET f == Top(t)
           rest == SubSeq(stack[t], 1, Depth(t) - 1)
       IN  /\ stack' = [stack EXCEPT ![t] =
                           IF rest # <<>> /\ f.exc THEN Unwind(rest) ELSE rest]
           /\ raised' = [raised EXCEPT ![t] = @ \/ (rest = <<>> /\ f.exc)]
           /\ closeReturned' = (closeReturned \/ (rest = <<>> /\ f.op = "close"))
    /\ UNCHANGED <<XOthers, XcvrFields, Effects, ncalls, started, late, afterClose, overlap>>

\* ------------------------------------------------------------ application
\* A thread calls one of the three operations (or __del__, which calls close).
Call(t, op) ==
    /\ Depth(t) = 0
    /\ ncalls < MaxCalls
    /\ stack' = [stack EXCEPT ![t] = <<Frame(op)>>]
    /\ ncalls' = ncalls + 1
    /\ started' = started \cup {op}
    /\ late' = [late EXCEPT ![t] = ~socket]
    /\ afterClose' = [afterClose EXCEPT ![t] = closeReturned]
    /\ overlap' = (overlap \/ Busy \ {t} # {})
    /\ UNCHANGED <<XOthers, XcvrFields, Effects, lock, raised, closeReturned>>

\* ------------------------------------------------------------ transmit
\* transmit() making a new transmitter when the reference is None
TransmitRenews == TRUE
\* `self.transmitter.transmit(*data)` reads the reference and leaves it as it is
TransmitLeaves == transmitter

\* transmit(*data), not synchronized, called by a thread that is in no other
\* call: the data goes out through the transmitter (an AttributeError when
\* the reference is None); no field is assigned
transmit ==
    /\ \E t \in Threads : Depth(t) = 0
    /\ transmitter' = TransmitLeaves
    /\ UNCHANGED <<XOthers, receiver, socket, Effects, History, lock, stack,
                   raised, overlap>>

\* ------------------------------------------------------------ stopped()
\* stopped() answering as soon as one half is stopped
stoppedEither == ~transmitter \/ ~receiver
stopped == ~transmitter /\ ~receiver

\* socket.shutdown(how): an AttributeError when self.socket is None, else it
\* succeeds or raises socket.error, benign (EBADF, ENOTCONN) or logged.
ShutdownOutcomes == IF socket THEN {"ok", "benign", "other"} ELSE {"attr"}

\* a shutdown whose logged socket.error leaves the operation at once
ShutdownAborting(t, half) ==
    \E r \in ShutdownOutcomes :
        /\ logged' = IF r = "other" THEN logged \cup {half} ELSE logged
        /\ shut' = shut \cup {half}
        /\ stack' = [stack EXCEPT
                        ![t][Depth(t)].pc = IF r = "other" THEN "ret" ELSE "clear",
                        ![t][Depth(t)].exc = (@ \/ r \in {"attr", "other"})]

Shutdown(t, half) ==
    \E r \in ShutdownOutcomes :
        /\ logged' = IF r = "other" THEN logged \cup {half} ELSE logged
        /\ shut' = shut \cup {half}
        /\ stack' = [stack EXCEPT ![t][Depth(t)].pc = "clear",
                                  ![t][Depth(t)].exc = (@ \/ r = "attr")]

\* stop_tx with the guard check left out: close() is called whenever stopped
StopTxMayCloseUnguarded == stopped
\* stop_rx with the guard check inverted
StopRxMayCloseInverted == stopped /\ locked("close")

\* `if self.stopped() and not self.close.locked(): self.close()`
StopTxMayClose == stopped /\ ~locked("close")
StopRxMayClose == stopped /\ ~locked("close")

\* stop_tx without its `if self.transmitter:` test
StopTxTransmitterIsSetAlways == TRUE
\* `if self.transmitter:`
StopTxTransmitterIsSet == transmitter
\* stop_rx without its `if self.receiver:` test
StopRxReceiverIsSetAlways == TRUE
\* `if self.receiver:`
StopRxReceiverIsSet == receiver

\* ------------------------------------------------------------ stop_tx
StopTxTest(t) ==
    /\ At(t, "stop_tx", "test")
    /\ stack' = Goto(t, IF StopTxTransmitterIsSet THEN "shutdown" ELSE "ret")
    /\ UNCHANGED <<XOthers, XcvrFields, Effects, History, lock, raised, overlap>>

StopTxShutdown(t) ==
    /\ At(t, "stop_tx", "shutdown")
    /\ Shutdown(t, "T")
    /\ UNCHANGED <<XOthers, XcvrFields, nSockClose, nCloseBody, nOnStop, History, lock,
                   raised, overlap>>

StopTxClear(t) ==
    /\ At(t, "stop_tx", "clear")
    /\ transmitter' = FALSE
    /\ stack' = Goto(t, "stopped")
    /\ UNCHANGED <<XOthers, receiver, socket, Effects, History, lock, raised, overlap>>

StopTxStopped(t) ==
    /\ At(t, "stop_tx", "stopped")
    /\ stack' = IF StopTxMayClose THEN CallFrom(t, "ret", "close")
                                  ELSE Goto(t, "ret")
    /\ UNCHANGED <<XOthers, XcvrFields, Effects, History, lock, raised, overlap>>

stop_tx(t) ==
    \/ StopTxTest(t)
    \/ StopTxShutdown(t)
    \/ StopTxClear(t)
    \/ StopTxStopped(t)

\* ------------------------------------------------------------ stop_rx
StopRxTest(t) ==
    /\ At(t, "stop_rx", "test")
    /\ stack' = Goto(t, IF StopRxReceiverIsSet THEN "on_stop" ELSE "ret")
    /\ UNCHANGED <<XOthers, XcvrFields, Effects, History, lock, raised, overlap>>

\* on_stop(): BaseTransceiver's own does nothing; a subclass may override it
\* with a hook that calls close() or stop_tx() on the transceiver
StopRxOnStop(t) ==
    /\ At(t, "stop_rx", "on_stop")
    /\ nOnStop' = nOnStop + 1
    /\ stack' = IF hook = "pass" THEN Goto(t, "shutdown")
                                 ELSE CallFrom(t, "shutdown", hook)
    /\ UNCHANGED <<XOthers, XcvrFields, nSockClose, nCloseBody, logged, shut, History, lock,
                   raised, overlap>>

StopRxShutdown(t) ==
    /\ At(t, "stop_rx", "shutdown")
    /\ Shutdown(t, "R")
    /\ UNCHANGED <<XOthers, XcvrFields, nSockClose, nCloseBody, nOnStop, History, lock,
                   raised, overlap>>

StopRxClear(t) ==
    /\ At(t, "stop_rx", "clear")
    /\ receiver' = FALSE
    /\ stack' = Goto(t, "stopped")
    /\ UNCHANGED <<XOthers, transmitter, socket, Effects, History, lock, raised, overlap>>

StopRxStopped(t) ==
    /\ At(t, "stop_rx", "stopped")
    /\ stack' = IF StopRxMayClose THEN CallFrom(t, "ret", "close")
                                  ELSE Goto(t, "ret")
    /\ UNCHANGED <<XOthers, XcvrFields, Effects, History, lock, raised, overlap>>

stop_rx(t) ==
    \/ StopRxTest(t)
    \/ StopRxOnStop(t)
    \/ StopRxShutdown(t)
    \/ StopRxClear(t)
    \/ StopRxStopped(t)

\* ------------------------------------------------------------ close
\* close() without its `if self.socket:` test
CloseSocketIsSetAlways == TRUE
\* `if self.socket:`
CloseSocketIsSet == socket

CloseTest(t) ==
    /\ At(t, "close", "test")
    /\ stack' = Goto(t, IF CloseSocketIsSet THEN "chk_tx" ELSE "ret")
    /\ nCloseBody' = IF CloseSocketIsSet THEN nCloseBody + 1 ELSE nCloseBody
    /\ UNCHANGED <<XOthers, XcvrFields, nSockClose, nOnStop, logged, shut, History, lock,
                   raised, overlap>>

\* `if not self.stop_tx.locked(): self.stop_tx()`
CloseMayStopTx == ~locked("stop_tx")
\* `if not self.stop_rx.locked(): self.stop_rx()`
CloseMayStopRx == ~locked("stop_rx")

CloseStopTx(t) ==
    /\ At(t, "close", "chk_tx")
    /\ stack' = IF CloseMayStopTx THEN CallFrom(t, "chk_rx", "stop_tx")
                                  ELSE Goto(t, "chk_rx")
    /\ UNCHANGED <<XOthers, XcvrFields, Effects, History, lock, raised, overlap>>

CloseStopRx(t) ==
    /\ At(t, "close", "chk_rx")
    /\ stack' = IF CloseMayStopRx THEN CallFrom(t, "sock_close", "stop_rx")
                                  ELSE Goto(t, "sock_close")
    /\ UNCHANGED <<XOthers, XcvrFields, Effects, History, lock, raised, overlap>>

\* `self.socket.close()`; a socket.error is swallowed
CloseSocketClose(t) ==
    /\ At(t, "close", "sock_close")
    /\ nSockClose' = nSockClose + 1
    /\ stack' = Goto(t, "release")
    /\ UNCHANGED <<XOthers, XcvrFields, nCloseBody, nOnStop, logged, shut, History, lock,
                   raised, overlap>>

\* `finally: self.socket = None`
CloseRelease(t) ==
    /\ At(t, "close", "release")
    /\ socket' = FALSE
    /\ stack' = Goto(t, "ret")
    /\ UNCHANGED <<XOthers, transmitter, receiver, Effects, History, lock, raised, overlap>>

close(t) ==
    \/ CloseTest(t)
    \/ CloseStopTx(t)
    \/ CloseStopRx(t)
    \/ CloseSocketClose(t)
    \/ CloseRelease(t)

\* ------------------------------------------------------------ Protocol
\* The bytes of the model.
Bytes == {"a", "b"}
\* Longest byte stream handed to one Protocol, longest single view, largest
\* integer limiter and longest delimiter.
MaxStream == 5
MaxView == 3
MaxLimit == 3
MaxDelim == 2

SeqsUpTo(S, n) == UNION {[1..k -> S] : k \in 0..n}

\* The limiter: None, an integer, a byte sequence, or a value of another type.
NoLimit == [kind |-> "none", n |-> 0, d |-> <<>>]
IntLimit(n) == [kind |-> "int", n |-> n, d |-> <<>>]
BytesLimit(d) == [kind |-> "bytes", n |-> 0, d |-> d]
OtherLimit == [kind |-> "other", n |-> 0, d |-> <<>>]
Limits ==
    {NoLimit, OtherLimit}
        \cup {IntLimit(n) : n \in (-1)..MaxLimit}
        \cup {BytesLimit(d) : d \in SeqsUpTo(Bytes, MaxDelim)}

Min(a, b) == IF a < b THEN a ELSE b
Max(a, b) == IF a > b THEN a ELSE b

\* The end of the slice [:n] of a sequence of length len (a negative n counts
\* from the end).
SliceEnd(len, n) == IF n >= 0 THEN Min(n, len) ELSE Max(len + n, 0)
\* buffer[:n]
Prefix(b, n) == SubSeq(b, 1, SliceEnd(Len(b), n))
\* buffer after `del buffer[:n]`
DelPrefix(b, n) == SubSeq(b, SliceEnd(Len(b), n) + 1, Len(b))

\* d occurs in b at the (0-based) index i
OccursAt(b, d, i) ==
    /\ i + Len(d) <= Len(b)
    /\ \A j \in 1..Len(d) : b[i + j] = d[j]
\* buffer.find(d): the lowest index where d occurs, -1 when there is none
Find(b, d) ==
    LET hits == {i \in 0..Len(b) : OccursAt(b, d, i)}
    IN  IF hits = {} THEN -1 ELSE CHOOSE i \in hits : \A j \in hits : i <= j

\* the fixed-length branch delivering one byte too many
IterIntOffByOne(b, n) ==
    IF Len(b) < n
    THEN [data |-> <<>>, buf |-> b, brk |-> TRUE]
    ELSE [data |-> <<Prefix(b, n + 1)>>, buf |-> DelPrefix(b, n + 1), brk |-> FALSE]
\* the delimiter branch removing the frame but not the delimiter
IterBytesKeepDelim(b, d) ==
    LET end == Find(b, d)
    IN  IF end = -1
        THEN [data |-> <<>>, buf |-> b, brk |-> TRUE]
        ELSE [data |-> <<Prefix(b, end)>>, buf |-> DelPrefix(b, end), brk |-> FALSE]
\* the deliver-all branch not clearing the buffer
IterNoneKeep(b) == [data |-> <<b>>, buf |-> b, brk |-> TRUE]

\* One pass of the body of `while buffer:` for each kind of limiter: the
\* frame handed to on_data (if any), the buffer afterwards, and whether the
\* loop was left by `break`.
IterNone(b) == [data |-> <<b>>, buf |-> <<>>, brk |-> FALSE]
IterInt(b, n) ==
    IF Len(b) < n
    THEN [data |-> <<>>, buf |-> b, brk |-> TRUE]
    ELSE [data |-> <<Prefix(b, n)>>, buf |-> DelPrefix(b, n), brk |-> FALSE]
IterBytes(b, d) ==
    LET end == Find(b, d)
    IN  IF end = -1
        THEN [data |-> <<>>, buf |-> b, brk |-> TRUE]
        ELSE [data |-> <<Prefix(b, end)>>,
              buf |-> DelPrefix(b, end + Len(d)),
              brk |-> FALSE]
Iter(b, lim) ==
    CASE lim.kind = "none" -> IterNone(b)
      [] lim.kind = "int" -> IterInt(b, lim.n)
      [] lim.kind = "bytes" -> IterBytes(b, lim.d)

\* `if buffer:` in place of `while buffer:`: one pass only
LoopOnce(b, lim, out) ==
    IF b = <<>> THEN [buf |-> b, out |-> out, status |-> "ok"]
    ELSE IF lim.kind = "other" THEN [buf |-> b, out |-> out, status |-> "error"]
    ELSE [buf |-> Iter(b, lim).buf, out |-> out \o Iter(b, lim).data, status |-> "ok"]

\* The loop `while buffer:` from buffer b with the frames out delivered so
\* far.  A pass that neither breaks nor changes the buffer repeats for ever.
RECURSIVE Loop(_, _, _)
Loop(b, lim, out) ==
    IF b = <<>> THEN [buf |-> b, out |-> out, status |-> "ok"]
    ELSE IF lim.kind = "other" THEN [buf |-> b, out |-> out, status |-> "error"]
    ELSE LET r == Iter(b, lim)
         IN  IF r.brk THEN [buf |-> r.buf, out |-> out \o r.data, status |-> "ok"]
             ELSE IF r.buf = b
                  THEN [buf |-> b, out |-> out \o r.data, status |-> "hung"]
                  ELSE Loop(r.buf, lim, out \o r.data)

\* `buffer[:] = view`: the view replacing what the buffer held
AppendedOverwrites(b, view) == view
\* `buffer[len(buffer):] = view`: the view appended to the buffer
Appended(b, view) == b \o view

\* Protocol.on_receive(view)
on_receive(view) ==
    /\ pstatus # "hung"
    /\ Len(stream) + Len(view) <= MaxStream
    /\ LET r == Loop(Appended(buffer, view), limit, <<>>)
       IN  /\ buffer' = r.buf
           /\ frames' = frames \o r.out
           /\ pstatus' = r.status
    /\ stream' = stream \o view
    /\ lastView' = view
    /\ UNCHANGED <<limit, xvars, tvars, rvars>>

\* After Protocol.__init__: an empty buffer; the subclass has set its limiter.
ProtoFresh ==
    /\ buffer = <<>>
    /\ frames = <<>>
    /\ stream = <<>>
    /\ lastView = <<>>
    /\ pstatus = "ok"

\* ------------------------------------------------------------ Transmitter
\* Number of finish() calls made on one Transmitter.
MaxFinish == 2

\* `finally: self.finished = True` put in the `else:` branch instead
FinishedAfterSuccessOnly(r) == r = "ok"
\* `finally: self.finished = True`, whatever shutdown did
FinishedAfter(r) == TRUE

\* Transmitter.finish(), reached through Dialogue.finish(); the shutdown
\* succeeds or raises socket.error, which is logged
finish ==
    /\ nFinishCalls < MaxFinish
    /\ nFinishCalls' = nFinishCalls + 1
    /\ IF ~finished
       THEN \E r \in {"ok", "error"} :
               /\ nShutdownWr' = nShutdownWr + 1
               /\ txLogged' = (txLogged \/ r = "error")
               /\ finished' = FinishedAfter(r)
       ELSE UNCHANGED <<finished, nShutdownWr, txLogged>>
    /\ UNCHANGED <<pvars, xvars, rvars>>

\* `finished = False`, the class attribute of a new Transmitter
InitTx ==
    /\ finished = FALSE
    /\ nShutdownWr = 0
    /\ txLogged = FALSE
    /\ nFinishCalls = 0

InitProto == ProtoFresh /\ limit \in Limits /\ InitTx

NextProto ==
    \/ \E view \in SeqsUpTo(Bytes, MaxView) : on_receive(view)
    \/ finish

\* ------------------------------------------------------------ EventPollReceiver
\* Number of sockets attached to one receiver, number of bytes the peers send
\* in all, and the largest capacity of a client's buffer.
NumSocks == 1
MaxBytes == 2
BufSize == 2

Socks == 1..NumSocks
NoSock == 0

WLocals == <<events, cur, received, receiving, rbuf, again>>
Net == <<inq, sent, peerClosed, reset, edge>>
RHistory == <<delivered, nFinish, zeroRead, readAfterZero>>
Signals == <<interrupted>>
ROthers == <<xvars, pvars, tvars, Signals>>

\* all orders in which the members of the set S can be listed
Orders(S) ==
    {q \in [1..Cardinality(S) -> S] : \A i, j \in 1..Cardinality(S) :
                                           q[i] = q[j] => i = j}

\* ---- the network and the peer
Arrives(s) == edge' = [edge EXCEPT ![s] = @ \/ s \in registered]

\* the number of bytes sent to the sockets 1..n
RECURSIVE SentTo(_)
SentTo(n) == IF n = 0 THEN 0 ELSE sent[n] + SentTo(n - 1)

PeerSend(s) ==
    /\ sockOpen[s] /\ ~peerClosed[s] /\ ~reset[s]
    /\ SentTo(NumSocks) < MaxBytes
    /\ sent' = [sent EXCEPT ![s] = @ + 1]
    /\ inq' = [inq EXCEPT ![s] = IF rdShut[s] THEN @ ELSE Append(@, sent[s] + 1)]
    /\ Arrives(s)
    /\ UNCHANGED <<ROthers, clients, registered, wpc, WLocals, peerClosed, reset,
                   rdShut, sockOpen, apc, RHistory>>

PeerClose(s) ==
    /\ sockOpen[s] /\ ~peerClosed[s] /\ ~reset[s]
    /\ peerClosed' = [peerClosed EXCEPT ![s] = TRUE]
    /\ Arrives(s)
    /\ UNCHANGED <<ROthers, clients, registered, wpc, WLocals, inq, sent, reset,
                   rdShut, sockOpen, apc, RHistory>>

\* the peer ends its side by a half-close or by a reset, not by both
PeerReset(s) ==
    /\ sockOpen[s] /\ ~peerClosed[s] /\ ~reset[s]
    /\ reset' = [reset EXCEPT ![s] = TRUE]
    /\ Arrives(s)
    /\ UNCHANGED <<ROthers, clients, registered, wpc, WLocals, inq, sent,
                   peerClosed, rdShut, sockOpen, apc, RHistory>>

\* ---- Receiver.detach and EventPollReceiver.detach
\* `fd = socket.fileno()` ... `del self.clients[fd]`: a closed socket has the
\* descriptor -1, which is no key of the map; a KeyError is swallowed
\* a detach that leaves the entry in the map
ClientsAfterDetachKept(s) == clients
ClientsAfterDetach(s) == IF sockOpen[s] THEN clients \ {s} ELSE clients
\* `if fd >= 0: self.poll.unregister(fd)` raises when fd is not registered
UnregisterRaises(s) == sockOpen[s] /\ s \notin registered

\* ---- the worker: EventPollReceiver.run
\* `while self.clients:`
WWhile ==
    /\ wpc = "while"
    /\ wpc' = IF clients # {} THEN "poll" ELSE "exit"
    /\ UNCHANGED <<ROthers, clients, registered, WLocals, Net, rdShut, sockOpen,
                   apc, RHistory>>

\* the event mask reported for s: EPOLLIN, or an error mask without it
Masks(s) == IF reset[s] THEN {"in", "err"} ELSE {"in"}

\* `events = self.poll.poll(1)`: the pending events, none after a timeout
WPoll ==
    /\ wpc = "poll"
    /\ LET ready == {s \in registered : edge[s]}
       IN  \E q \in Orders(ready) :
           \E mk \in [ready -> {"in", "err"}] :
               /\ \A s \in ready : mk[s] \in Masks(s)
               /\ events' = [i \in 1..Len(q) |-> [fd |-> q[i], mask |-> mk[q[i]]]]
               /\ edge' = [s \in Socks |-> edge[s] /\ s \notin ready]
    /\ wpc' = "check"
    /\ UNCHANGED <<ROthers, clients, registered, cur, received, receiving, rbuf,
                   again, inq, sent, peerClosed, reset, rdShut, sockOpen, apc, RHistory>>

\* `if not self.clients: break`
WCheck ==
    /\ wpc = "check"
    /\ wpc' = IF clients = {} THEN "exit" ELSE "for"
    /\ UNCHANGED <<ROthers, clients, registered, WLocals, Net, rdShut, sockOpen,
                   apc, RHistory>>

\* `for fd, event in events:`
WFor ==
    /\ wpc = "for"
    /\ IF events = <<>>
       THEN /\ wpc' = "while"
            /\ UNCHANGED <<events, cur>>
       ELSE /\ wpc' = "lookup"
            /\ cur' = Head(events)
            /\ events' = Tail(events)
    /\ UNCHANGED <<ROthers, clients, registered, received, receiving, rbuf, again,
                   Net, rdShut, sockOpen, apc, RHistory>>

\* `... = self.clients[fd]` (KeyError when absent); `if event & EPOLLIN:`
\* (else RuntimeError); `received = 0; receiving = -1`
WLookup ==
    /\ wpc = "lookup"
    /\ IF cur.fd \in clients /\ cur.mask = "in"
       THEN /\ wpc' = "recv"
            /\ received' = 0
            /\ receiving' = -1
            /\ again' = FALSE
       ELSE /\ wpc' = "crashed"
            /\ UNCHANGED <<received, receiving, again>>
    /\ UNCHANGED <<ROthers, clients, registered, events, cur, rbuf, Net, rdShut,
                   sockOpen, apc, RHistory>>

\* on_finish() is called only when the wakeup received nothing
WFinishWanted == received = 0

\* What recv_into does on socket s: "ebadf" (errno 9) on a closed socket,
\* "raise" for another error, "data", "eof" (zero bytes), "again" (errno 11).
RecvOutcome(s) ==
    IF ~sockOpen[s] THEN "ebadf"
    ELSE IF inq[s] # <<>> THEN "data"
    ELSE IF reset[s] THEN "raise"
    ELSE IF peerClosed[s] \/ rdShut[s] THEN "eof"
    ELSE "again"

\* `bytearray(buffer_size)`: a buffer of zero bytes
NewBuffer(size) == [i \in 1..size |-> 0]

\* `socket.recv_into(buffer)`: the buffer after the bytes data, which are no
\* more than its capacity, were written to its start
RecvInto(buf, data) ==
    [i \in 1..Len(buf) |-> IF i <= Len(data) THEN data[i] ELSE buf[i]]

\* `view[:receiving]` delivered without its first n bytes being selected
ViewWhole(view, n) == view

\* `view[:receiving]`
ViewSlice(view, n) == SubSeq(view, 1, n)

\* one pass of `while receiving:` with receiving # 0
WRecv ==
    /\ wpc = "recv"
    /\ receiving # 0
    /\ LET s == cur.fd
           r == RecvOutcome(s)
           n == Min(Len(inq[s]), Len(rbuf[s]))
           filled == RecvInto(rbuf[s], SubSeq(inq[s], 1, n))
       IN  /\ readAfterZero' = [readAfterZero EXCEPT ![s] = @ \/ zeroRead[s]]
           /\ zeroRead' = [zeroRead EXCEPT ![s] = @ \/ r = "eof"]
           /\ wpc' = IF r = "raise" THEN "crashed" ELSE "recv"
           /\ receiving' = CASE r \in {"ebadf", "eof"} -> 0
                             [] r = "data" -> n
                             [] OTHER -> receiving
           /\ received' = IF r = "data" THEN received + n ELSE received
           /\ again' = (r = "again")
           /\ rbuf' = IF r = "data" THEN [rbuf EXCEPT ![s] = filled] ELSE rbuf
           /\ delivered' = IF r = "data"
                           THEN [delivered EXCEPT ![s] = @ \o ViewSlice(filled, n)]
                           ELSE delivered
           /\ inq' = IF r = "data"
                     THEN [inq EXCEPT ![s] = SubSeq(@, n + 1, Len(@))]
                     ELSE inq
    /\ UNCHANGED <<ROthers, clients, registered, events, cur, sent, peerClosed,
                   reset, edge, rdShut, sockOpen, apc, nFinish>>

\* one pass of `while receiving:` in which a signal interrupts recv_into: the
\* socket.error has errno 4, neither 9 nor 11, and `else: raise` ends run()
WRecvInterrupted ==
    /\ wpc = "recv"
    /\ receiving # 0
    /\ sockOpen[cur.fd]
    /\ interrupted' = TRUE
    /\ wpc' = "crashed"
    /\ readAfterZero' = [readAfterZero EXCEPT ![cur.fd] = @ \/ zeroRead[cur.fd]]
    /\ UNCHANGED <<xvars, pvars, tvars, clients, registered, WLocals, Net, rdShut,
                   sockOpen, apc, delivered, nFinish, zeroRead>>

\* the loop ends with receiving = 0; `if not received: on_finish()`, and in
\* on_finish (new_single_use_receiver) `dialogue.on_finish()`
WAfter ==
    /\ wpc = "recv"
    /\ receiving = 0
    /\ IF WFinishWanted
       THEN /\ nFinish' = [nFinish EXCEPT ![cur.fd] = @ + 1]
            /\ wpc' = "detach"
       ELSE /\ wpc' = "for"
            /\ UNCHANGED nFinish
    /\ UNCHANGED <<ROthers, clients, registered, WLocals, Net, rdShut, sockOpen,
                   apc, delivered, zeroRead, readAfterZero>>

\* on_finish: `receiver.detach(dialogue.socket)`, Receiver.detach
WDetach ==
    /\ wpc = "detach"
    /\ rdShut' = [rdShut EXCEPT ![cur.fd] = @ \/ sockOpen[cur.fd]]
    /\ clients' = ClientsAfterDetach(cur.fd)
    /\ wpc' = "unregister"
    /\ UNCHANGED <<ROthers, registered, WLocals, Net, sockOpen, apc, RHistory>>

\* on_finish: the rest of EventPollReceiver.detach, then the shutdown
WUnregister ==
    /\ wpc = "unregister"
    /\ IF UnregisterRaises(cur.fd)
       THEN /\ wpc' = "crashed"
            /\ UNCHANGED <<registered, edge>>
       ELSE /\ wpc' = "for"
            /\ registered' = registered \ {cur.fd}
            /\ edge' = [edge EXCEPT ![cur.fd] = FALSE]
    /\ UNCHANGED <<ROthers, clients, WLocals, inq, sent, peerClosed, reset,
                   rdShut, sockOpen, apc, RHistory>>

\* ---- the application: Dialogue.close
\* `self.finish()`
DCloseFinish(s) ==
    /\ apc[s] = "open"
    /\ apc' = [apc EXCEPT ![s] = "detach"]
    /\ UNCHANGED <<ROthers, clients, registered, wpc, WLocals, Net, rdShut,
                   sockOpen, RHistory>>

\* `self.receiver.detach(self.socket)`, Receiver.detach
DCloseDetach(s) ==
    /\ apc[s] = "detach"
    /\ rdShut' = [rdShut EXCEPT ![s] = @ \/ sockOpen[s]]
    /\ clients' = ClientsAfterDetach(s)
    /\ apc' = [apc EXCEPT ![s] = "unregister"]
    /\ UNCHANGED <<ROthers, registered, wpc, WLocals, Net, sockOpen, RHistory>>

\* the rest of EventPollReceiver.detach; when it raises, close() is left
DCloseUnregister(s) ==
    /\ apc[s] = "unregister"
    /\ IF UnregisterRaises(s)
       THEN /\ apc' = [apc EXCEPT ![s] = "raised"]
            /\ UNCHANGED <<registered, edge>>
       ELSE /\ apc' = [apc EXCEPT ![s] = "sock_close"]
            /\ registered' = registered \ {s}
            /\ edge' = [edge EXCEPT ![s] = FALSE]
    /\ UNCHANGED <<ROthers, clients, wpc, WLocals, inq, sent, peerClosed, reset,
                   rdShut, sockOpen, RHistory>>

\* `self.socket.close()`: the descriptor leaves the poller with it
DCloseSocket(s) ==
    /\ apc[s] = "sock_close"
    /\ apc' = [apc EXCEPT ![s] = "closed"]
    /\ sockOpen' = [sockOpen EXCEPT ![s] = FALSE]
    /\ registered' = registered \ {s}
    /\ edge' = [edge EXCEPT ![s] = FALSE]
    /\ UNCHANGED <<ROthers, clients, wpc, WLocals, inq, sent, peerClosed, reset,
                   rdShut, RHistory>>

\* ---- the owner of an attached socket
\* `socket.close()` on a socket that is still attached, by the code that owns
\* it: the receiver keeps a reference to the socket, not the socket itself
SocketClose(s) ==
    /\ apc[s] = "open"
    /\ sockOpen[s]
    /\ sockOpen' = [sockOpen EXCEPT ![s] = FALSE]
    /\ registered' = registered \ {s}
    /\ edge' = [edge EXCEPT ![s] = FALSE]
    /\ UNCHANGED <<ROthers, clients, wpc, WLocals, inq, sent, peerClosed, reset,
                   rdShut, apc, RHistory>>

\* After new_single_use_receiver and receiver.start(): every socket attached
\* with a buffer of some capacity and registered, nothing received yet.
InitRecv ==
    /\ clients = Socks
    /\ registered = Socks
    /\ wpc = "while"
    /\ events = <<>>
    /\ cur = [fd |-> NoSock, mask |-> "in"]
    /\ received = 0
    /\ receiving = -1
    /\ again = FALSE
    /\ interrupted = FALSE
    /\ rbuf \in {[s \in Socks |-> NewBuffer(size)] : size \in 1..BufSize}
    /\ inq = [s \in Socks |-> <<>>]
    /\ sent = [s \in Socks |-> 0]
    /\ peerClosed = [s \in Socks |-> FALSE]
    /\ reset = [s \in Socks |-> FALSE]
    /\ edge = [s \in Socks |-> FALSE]
    /\ rdShut = [s \in Socks |-> FALSE]
    /\ sockOpen = [s \in Socks |-> TRUE]
    /\ apc = [s \in Socks |-> "open"]
    /\ delivered = [s \in Socks |-> <<>>]
    /\ nFinish = [s \in Socks |-> 0]
    /\ zeroRead = [s \in Socks |-> FALSE]
    /\ readAfterZero = [s \in Socks |-> FALSE]

Worker ==
    \/ WWhile
    \/ WPoll
    \/ WCheck
    \/ WFor
    \/ WLookup
    \/ WRecv
    \/ WAfter
    \/ WDetach
    \/ WUnregister

NextRecv ==
    \/ Worker
    \/ \E s \in Socks :
          \/ PeerSend(s)
          \/ PeerClose(s)
          \/ PeerReset(s)
          \/ DCloseFinish(s)
          \/ DCloseDetach(s)
          \/ DCloseUnregister(s)
          \/ DCloseSocket(s)

NextOwner ==
    \/ NextRecv
    \/ \E s \in Socks : SocketClose(s)

NextSignal ==
    \/ NextRecv
    \/ WRecvInterrupted

\* the receiver beside a transceiver or a Protocol: its buffers are the largest
IdleRecv == InitRecv /\ \A s \in Socks : Len(rbuf[s]) = BufSize

\* ------------------------------------------------------------ specification
\* After __init__: connected socket, transmitter and receiver set, the
\* transceiver attached to its receiver.
InitXcvrFields ==
    /\ transmitter = TRUE
    /\ receiver = TRUE
    /\ socket = TRUE
    /\ attached = TRUE
    /\ nSockClose = 0
    /\ nCloseBody = 0
    /\ nOnStop = 0
    /\ logged = {}
    /\ shut = {}
    /\ lock = [op \in Ops |-> NoThread]
    /\ stack = [t \in Threads |-> <<>>]
    /\ ncalls = 0
    /\ raised = [t \in Threads |-> FALSE]
    /\ started = {}
    /\ late = [t \in Threads |-> FALSE]
    /\ afterClose = [t \in Threads |-> FALSE]
    /\ closeReturned = FALSE
    /\ overlap = FALSE

\* a BaseTransceiver as the class defines it: on_stop() is `pass`
InitXcvr == InitXcvrFields /\ hook = "pass"
\* a subclass whose on_stop() calls close() or stop_tx()
Hooks == {"close", "stop_tx"}
InitHook == InitXcvrFields /\ hook \in Hooks

Step(t) ==
    \/ Acquire(t)
    \/ stop_tx(t)
    \/ stop_rx(t)
    \/ close(t)
    \/ Return(t)

NextXcvr ==
    \/ \E t \in Threads :
          \/ \E op \in Ops : Call(t, op)
          \/ Step(t)
    \/ transmit

\* a transceiver in use, with an idle Protocol beside it
InitSpecXcvr == InitXcvr /\ ProtoFresh /\ limit = NoLimit /\ InitTx /\ IdleRecv

SpecXcvr == InitSpecXcvr /\ [][NextXcvr]_vars

\* While some thread can take a step, one of them eventually does: the least
\* the thread scheduler gives.
FairXcvr == SpecXcvr /\ WF_vars(\E t \in Threads : Step(t))

\* a Protocol receiving, with an untouched transceiver beside it
InitSpecProto == InitProto /\ InitXcvr /\ IdleRecv

SpecProto == InitSpecProto /\ [][NextProto]_vars

\* a receiver at work, with an untouched transceiver and Protocol beside it
InitSpecRecv == InitRecv /\ InitXcvr /\ ProtoFresh /\ limit = NoLimit /\ InitTx

SpecRecv == InitSpecRecv /\ [][NextRecv]_vars

\* a transceiver whose on_stop() hook calls back into it
InitSpecHook == InitHook /\ ProtoFresh /\ limit = NoLimit /\ InitTx /\ IdleRecv
SpecHook == InitSpecHook /\ [][NextXcvr]_vars

\* a receiver at work in a process that receives signals
SpecSignal == InitSpecRecv /\ [][NextSignal]_vars

\* a receiver at work whose sockets may also be closed by their owner while
\* they are attached
SpecOwner == InitSpecRecv /\ [][NextOwner]_vars

\* ------------------------------------------------------------ claims C1..C6
Quiescent == \A t \in Threads : ~InCall(t)

\* C1: when stop_tx() and stop_rx() are the two calls made on an open
\* transceiver, by one thread or by two at once, the releasing body of
\* close() is never entered twice and socket.close() is never called twice,
\* and once both calls have returned each has happened exactly once.
ConcurrentStopsCloseOnce ==
    (started \subseteq {"stop_tx", "stop_rx"} /\ ncalls <= 2) =>
        /\ nCloseBody <= 1
        /\ nSockClose <= 1
        /\ (Quiescent /\ started = {"stop_tx", "stop_rx"}) =>
               (nCloseBody = 1 /\ nSockClose = 1 /\ ~socket)

\* stop_tx and stop_rx overlapped in two threads, both returned, one close
ConcurrentStopsWitness ==
    /\ Quiescent
    /\ started = {"stop_tx", "stop_rx"}
    /\ ncalls = 2
    /\ overlap
    /\ nSockClose = 1

\* C2: close() is idempotent: the socket is released at most once, it is
\* released exactly once as soon as a close() call has returned, a close()
\* call begun after another returned never enters the body, and no close()
\* call raises.
CloseIdempotent ==
    /\ nSockClose <= 1
    /\ nCloseBody <= 1
    /\ closeReturned => (~socket /\ nSockClose = 1)
    /\ \A t \in Threads :
          (InCall(t) /\ stack[t][1].op = "close") =>
              /\ ~stack[t][1].exc
              /\ afterClose[t] =>
                    (Depth(t) = 1 /\ Top(t).pc \in {"enter", "test", "ret"})

\* three close() calls, two of them overlapping, the last one begun after an
\* earlier one had returned
CloseIdempotentWitness ==
    /\ Quiescent
    /\ started = {"close"}
    /\ ncalls = 3
    /\ overlap
    /\ \E t \in Threads : afterClose[t]
    /\ nSockClose = 1

\* C3: the socket is released (socket = None) only if both halves have been
\* stopped (transmitter = None and receiver = None).
SocketReleasedOnlyWhenStopped == ~socket => (~transmitter /\ ~receiver)

\* C4: every call of stop_tx(), stop_rx() or close() eventually returns: at
\* any time each thread is, or will later be, outside every call.
EveryCallReturns == \A t \in Threads : []<>(~InCall(t))

\* a thread waits for a guard held by a thread that is inside the mutual
\* calls stop_tx -> close -> stop_rx
MutualCallsWitness ==
    \E t, u \in Threads :
        /\ t # u
        /\ InCall(t)
        /\ Top(t).pc = "enter"
        /\ lock[Top(t).op] = u
        /\ Depth(u) = 3
        /\ stack[u][1].op = "stop_tx"
        /\ stack[u][3].op = "stop_rx"

\* C5: without any explicit close() call, once the calls made have returned:
\* stop_tx() alone has cleared only the transmitter and left the socket,
\* stop_rx() alone has cleared only the receiver and left the socket, and
\* both together have released the socket.
LifecycleStateMachine ==
    (Quiescent /\ "close" \notin started) =>
        /\ (started = {}) =>
               (transmitter /\ receiver /\ socket /\ nSockClose = 0)
        /\ (started = {"stop_tx"}) =>
               (~transmitter /\ receiver /\ socket /\ nSockClose = 0)
        /\ (started = {"stop_rx"}) =>
               (transmitter /\ ~receiver /\ socket /\ nSockClose = 0)
        /\ (started = {"stop_tx", "stop_rx"}) =>
               (~transmitter /\ ~receiver /\ ~socket /\ nSockClose = 1)

\* stop_tx() then stop_rx(), one after the other, released the socket
LifecycleWitness ==
    /\ Quiescent
    /\ started = {"stop_tx", "stop_rx"}
    /\ ~overlap
    /\ ~socket

\* C6: a call of close(), stop_tx() or stop_rx() begun after the socket was
\* released never gets past the test at the head of the operation (so it
\* changes no field, touches no socket and runs no hook) and raises nothing.
ClosedIsTerminal ==
    \A t \in Threads :
        (InCall(t) /\ late[t]) =>
            /\ Depth(t) = 1
            /\ Top(t).pc \in {"enter", "test", "ret"}
            /\ ~Top(t).exc

\* a stop_tx() or stop_rx() call begun after the release is about to return
ClosedIsTerminalWitness ==
    \E t \in Threads :
        /\ late[t]
        /\ InCall(t)
        /\ Top(t).op # "close"
        /\ Top(t).pc = "ret"

\* ------------------------------------------------------------ claims C7..C9
\* the i-th block of n bytes of s
Block(s, n, i) == SubSeq(s, (i - 1) * n + 1, i * n)
\* the last Len(s) mod n bytes of s
Remainder(s, n) == SubSeq(s, Len(s) - (Len(s) % n) + 1, Len(s))

\* C7: with limit = N > 0, however the stream was split into views, the
\* frames delivered are the floor(total / N) consecutive N-byte blocks of the
\* stream, in order, and the last total mod N bytes stay in the buffer.
FixedLengthFrames ==
    (limit.kind = "int" /\ limit.n > 0) =>
        /\ pstatus = "ok"
        /\ Len(frames) = Len(stream) \div limit.n
        /\ \A i \in 1..Len(frames) : frames[i] = Block(stream, limit.n, i)
        /\ buffer = Remainder(stream, limit.n)

\* limit = 3, five bytes received as 2 + 3: the one frame spans both views
FixedLengthWitness ==
    /\ limit = IntLimit(3)
    /\ Len(stream) = 5
    /\ Len(lastView) = 3
    /\ Len(frames) = 1
    /\ Len(buffer) = 2

\* The stream s from the (0-based) index from, cut at the successive
\* occurrences of the non-empty delimiter d, each looked for after the end of
\* the one before: the pieces before each occurrence, and what follows the last.
RECURSIVE Split(_, _, _)
Split(s, d, from) ==
    LET hits == {i \in from..Len(s) : OccursAt(s, d, i)}
    IN  IF hits = {}
        THEN [pieces |-> <<>>, rest |-> SubSeq(s, from + 1, Len(s))]
        ELSE LET i == CHOOSE h \in hits : \A j \in hits : h <= j
                 r == Split(s, d, i + Len(d))
             IN  [pieces |-> <<SubSeq(s, from + 1, i)>> \o r.pieces,
                  rest |-> r.rest]

\* C8: with a non-empty delimiter D, however the stream was split into views
\* (also in the middle of an occurrence of D), one frame is delivered per
\* occurrence of D in the stream, each the bytes between that occurrence and
\* the one before it, and the bytes after the last occurrence stay buffered.
\* Occurrences are counted as they are met from the left, each after the end
\* of the one before.
DelimiterFrames ==
    (limit.kind = "bytes" /\ limit.d # <<>>) =>
        /\ pstatus = "ok"
        /\ frames = Split(stream, limit.d, 0).pieces
        /\ buffer = Split(stream, limit.d, 0).rest

\* D = "ab", stream "b a|b a": the second view begins in the middle of D
DelimiterWitness ==
    /\ limit = BytesLimit(<<"a", "b">>)
    /\ stream = <<"b", "a", "b", "a">>
    /\ lastView = <<"b", "a">>
    /\ frames = << <<"b">> >>
    /\ buffer = <<"a">>

\* C9: with limit = None every call of on_receive (every step that is not a
\* call of finish) leaves the buffer empty and delivers exactly one frame,
\* equal to the view, when the view is not empty.
NoLimitFrames ==
    [][(limit.kind = "none" /\ nFinishCalls' = nFinishCalls) =>
          /\ buffer' = <<>>
          /\ frames' = IF lastView' # <<>> THEN Append(frames, lastView')
                                           ELSE frames]_vars

\* two views received with no limiter, each delivered as its own frame
NoLimitWitness ==
    /\ limit = NoLimit
    /\ Len(frames) = 2
    /\ frames[2] = lastView
    /\ frames[1] \o frames[2] = stream
    /\ Len(stream) = 5
    /\ buffer = <<>>

\* ------------------------------------------------------------ claim C10
\* the worker is still inside the wakeup of socket s
Handling(s) == cur.fd = s /\ wpc \in {"recv", "detach", "unregister"}

\* C10: a read of zero bytes makes the worker invoke on_finish exactly once
\* for that socket, whether or not data was read before it in the same
\* wakeup, and no read is issued for that socket afterwards.
ZeroReadFinishesOnce ==
    \A s \in Socks :
        /\ nFinish[s] <= 1
        /\ (zeroRead[s] /\ ~Handling(s)) => nFinish[s] = 1
        /\ ~readAfterZero[s]

\* ------------------------------------------------------------ claim C11
\* C11: for every connection, the views passed to on_receive, joined in callback
\* order, are the bytes read from the socket in arrival order: together with
\* the bytes still queued they are the bytes 1, 2, 3, ... of the peer, none
\* dropped, duplicated or reordered, whatever the capacity of the buffer and
\* however the bytes are split over reads and wakeups.
InOrder(q) == \A i \in 1..Len(q) : q[i] = i

DeliveredInArrivalOrder ==
    \A s \in Socks :
        /\ InOrder(delivered[s] \o inq[s])
        /\ ~rdShut[s] => Len(delivered[s]) + Len(inq[s]) = sent[s]

\* both bytes were delivered by two reads that each filled a buffer of capacity
\* two only in part
DeliveredInArrivalOrderWitness ==
    \E s \in Socks : delivered[s] = <<1, 2>> /\ rbuf[s] = <<2, 0>>

\* ------------------------------------------------------------ claim C12
\* C12: a Protocol whose limiter is neither absent, an integer nor a byte
\* sequence fails at setup, so that no such Protocol ever has received bytes
\* appended to its buffer: its failure does not wait for data to arrive.
InvalidLimiterFailsAtSetup ==
    limit.kind = "other" => (stream = <<>> /\ buffer = <<>>)

\* ------------------------------------------------------------ claim C13
\* C13: detach(socket) is idempotent: a detach of a socket that was detached
\* before, as when the finish callback and Dialogue.close() both detach it,
\* raises no error.
DetachIdempotent == \A s \in Socks : apc[s] # "raised"

\* ------------------------------------------------------------ claim C14
\* the frames of stop_rx that found the read half live and are past on_stop
PastOnStop ==
    {t \in Threads : \E i \in 1..Depth(t) :
        /\ stack[t][i].op = "stop_rx"
        /\ stack[t][i].pc \in {"shutdown", "clear", "stopped"}}

\* C14: a stop_rx() that finds the read half live invokes on_stop before the
\* read half is shut down and before the receiver reference is cleared, and
\* over any interleaving of stop_rx() and close() calls on_stop is invoked at
\* most once.
OnStopFirstAndOnce ==
    /\ nOnStop <= 1
    /\ PastOnStop # {} => nOnStop = 1
    /\ "R" \in shut => nOnStop = 1
    /\ ~receiver => nOnStop = 1

\* stop_rx() and close() were both called, by threads whose calls overlapped,
\* and all calls are over with the read half shut down and cleared
OnStopFirstAndOnceWitness ==
    /\ Busy = {}
    /\ overlap
    /\ {"stop_rx", "close"} \subseteq started
    /\ ncalls = MaxCalls
    /\ "R" \in shut
    /\ ~receiver
    /\ nOnStop = 1

\* ------------------------------------------------------------ claim C15
\* thread t has a frame of op at pc that carries no exception
Continues(op, pc) ==
    \E t \in Threads : \E i \in 1..Depth(t) :
        stack[t][i].op = op /\ stack[t][i].pc = pc /\ ~stack[t][i].exc

\* C15: a socket error raised by the half-shutdown in stop_tx() or stop_rx()
\* does not abort the stop: an exception leaves a call only when the socket
\* reference was None, after an error the operation goes on to clear its
\* reference, and the fully-stopped check still runs, so that with both halves
\* stopped and all calls over the socket has been released.
ShutdownErrorNeverAborts ==
    /\ \A t \in Threads :
           (raised[t] \/ \E i \in 1..Depth(t) : stack[t][i].exc) => ~socket
    /\ "T" \in logged => (~transmitter \/ Continues("stop_tx", "clear"))
    /\ "R" \in logged => (~receiver \/ Continues("stop_rx", "clear"))
    /\ (logged # {} /\ stopped /\ Busy = {}) => ~socket

\* both shutdowns raised a logged socket error, no close() was called from
\* outside, no call raised, and the stops have released the socket
ShutdownErrorNeverAbortsWitness ==
    /\ logged = {"T", "R"}
    /\ "close" \notin started
    /\ Busy = {}
    /\ \A t \in Threads : ~raised[t]
    /\ stopped
    /\ ~socket

Running(op) ==
    \E t \in Threads : \E i \in 1..Depth(t) : stack[t][i].op = op

\* C17: once stop_rx() has completed, the receiver holds no client entry for
\* the descriptor of this transceiver: the stop has detached it.
StopRxDetaches == (~receiver /\ ~Running("stop_rx")) => ~attached

\* ------------------------------------------------------------ claim C18
\* C18: clearing is monotonic: no step of transmit, stop_tx, stop_rx, close or
\* a callback sets the transmitter, the receiver or the socket reference again
\* once it has been cleared.
ClearingIsMonotonic ==
    [][/\ ~transmitter => ~transmitter'
       /\ ~receiver => ~receiver'
       /\ ~socket => ~socket']_vars

\* all three references are cleared, every operation has been called, one of
\* them after the socket was released, and all calls are over
ClearingIsMonotonicWitness ==
    /\ ~transmitter /\ ~receiver /\ ~socket
    /\ started = Ops
    /\ \E t \in Threads : late[t]
    /\ Busy = {}

\* ------------------------------------------------------------ claim C19
\* C19: a read that would block ends the drain loop of the wakeup: after it
\* the worker is not about to read the same descriptor again, it goes on to
\* the next event or back to the poll.
WouldBlockEndsDrain == again => ~(wpc = "recv" /\ receiving # 0)

\* ------------------------------------------------------------ claim C20
\* C20: once on_finish has run for a socket and its wakeup is over, the map
\* holds no entry for the socket, and the worker never again reads from it or
\* invokes its on_receive or its on_finish.
FinishedSocketNotRevisited ==
    \A s \in Socks :
        /\ nFinish[s] <= 1
        /\ (nFinish[s] = 1 /\ ~Handling(s)) => s \notin clients
        /\ (wpc = "recv" /\ cur.fd = s) => nFinish[s] = 0

\* the peer sent data and half-closed, both were handled by the worker alone,
\* which has left its loop with the socket detached and unregistered
FinishedSocketNotRevisitedWitness ==
    \E s \in Socks :
        /\ peerClosed[s]
        /\ delivered[s] # <<>>
        /\ nFinish[s] = 1
        /\ apc[s] = "open"
        /\ s \notin clients
        /\ s \notin registered
        /\ wpc = "exit"

\* ------------------------------------------------------------ claim C21
\* the worker is between the two halves of a detach of socket s
WorkerDetaching(s) == wpc = "unregister" /\ cur.fd = s

\* C21: when a detach call has completed, also the detach of a socket that was
\* closed before, the socket has an entry in the client map if and only if
\* its descriptor is registered with the poller.
ClientsIffRegistered ==
    \A s \in Socks :
        (apc[s] = "sock_close" /\ ~WorkerDetaching(s)) =>
            (s \in clients <=> s \in registered)

InterruptedReadRetried == interrupted => (wpc = "recv" /\ receiving # 0)

\* ------------------------------------------------------------ claim C24
\* C24: whenever on_receive has returned normally the buffer holds no complete
\* frame: it is empty when the limiter is None, shorter than N for an integer
\* limiter N > 0, and free of any occurrence of a non-empty delimiter D.
NoCompleteFrameLeft ==
    pstatus = "ok" =>
        /\ limit.kind = "none" => buffer = <<>>
        /\ (limit.kind = "int" /\ limit.n > 0) => Len(buffer) < limit.n
        /\ (limit.kind = "bytes" /\ limit.d # <<>>) => Find(buffer, limit.d) = -1
\* a call that delivered frames of a two-byte delimiter and returned with a
\* remainder in the buffer
NoCompleteFrameLeftWitness ==
    /\ pstatus = "ok"
    /\ limit.kind = "bytes"
    /\ Len(limit.d) = 2
    /\ Len(frames) >= 2
    /\ buffer # <<>>
    /\ lastView # <<>>

\* ------------------------------------------------------------ claim C25
\* C25: when the on_stop hook calls close() or stop_tx() on its own
\* transceiver, and no two calls of the application overlap, no call raises:
\* in particular stop_rx() returns without raising.
HookedStopRxNeverRaises ==
    (hook \in Hooks /\ ~overlap) => \A t \in Threads : ~raised[t]

\* ------------------------------------------------------------ claim C26
\* C26: whatever attach and detach calls interleave with the worker loop, the
\* worker never looks up a descriptor that is absent from the client map.
WorkerLooksUpAttachedOnly == wpc = "lookup" => cur.fd \in clients

\* ------------------------------------------------------------ claim C27
\* the frames fs one after another, each followed by sep
RECURSIVE Joined(_, _)
Joined(fs, sep) ==
    IF fs = <<>> THEN <<>> ELSE Head(fs) \o sep \o Joined(Tail(fs), sep)

\* C27: with a fixed-length or a delimiter limiter no byte is lost, duplicated
\* or reordered: the frames delivered so far, in order (each followed by the
\* delimiter in delimiter mode), followed by the buffer, are exactly the bytes
\* received so far.
FramingConservesBytes ==
    limit.kind \in {"int", "bytes"} =>
        Joined(frames, limit.d) \o buffer = stream
\* two one-byte-delimited frames delivered and a remainder buffered, the last
\* view having completed a frame
FramingConservesBytesWitness ==
    /\ limit.kind = "bytes"
    /\ Len(limit.d) = 1
    /\ Len(frames) = 2
    /\ frames[1] # <<>>
    /\ buffer # <<>>
    /\ Len(lastView) < Len(stream)
    /\ pstatus = "ok"

\* ------------------------------------------------------------ claim C28
\* C28: every call of on_receive terminates, whatever limiter the code
\* accepts: no call is left repeating a pass of the loop that neither breaks
\* nor removes a byte from the buffer.
OnReceiveTerminates == pstatus # "hung"

====
